---- MODULE Spec2Model ----
(***************************************************************************)
(* The two elevation clients of SeedOfTheWorld:                            *)
(*   TessaDEMAPI  (src/tessadem_api.py)   the commercial client            *)
(*   USGSEPQSApi  (src/usgs_epqs_api.py)  the government client            *)
(* One call at a time (the code is synchronous): a call validates, sends   *)
(* requests, the remote service answers, the call resumes on the answer.   *)
(* Python floats are modelled as exact rationals <<n, d>>, d > 0, in       *)
(* lowest terms; Python exceptions as records naming their class.          *)
(***************************************************************************)
EXTENDS Integers, Sequences, FiniteSets, TLC

VARIABLES
    call,       \* the operation in progress and its arguments
    pc,         \* "idle" | "loop" | "wait" | "done"
    inflight,   \* requests sent and not yet answered
    response,   \* answers delivered and not yet read by the client
    sent,       \* every request the call has sent, in order
    received,   \* every answer the call has read, in order
    outcome,    \* what the call returned or raised
    idx,        \* loop position of get_elevation_batch / get_elevations_grid
    acc,        \* results / elevations accumulated by those loops
    attempts    \* per item of those loops: how its single-point call ended

vars == <<call, pc, inflight, response, sent, received, outcome, idx, acc, attempts>>

----------------------------------------------------------------------------
(* Bounds of the model *)

MaxLocs == 2
MaxSmallGrid == 3
MaxBatch == 3
MaxGovGrid == 2

(* Class constants of TessaDEMAPI *)

MIN_LATITUDE == -80
MAX_LATITUDE == 84
MAX_LOCATIONS_PER_REQUEST == 512
MAX_REQUEST_EXTENT_DEGREES == 5
MAX_GRID_SIZE == 128

----------------------------------------------------------------------------
(* Numbers: exact rationals standing for Python floats *)

Abs(n) == IF n < 0 THEN -n ELSE n

RECURSIVE GCD(_, _)
GCD(a, b) == IF b = 0 THEN a ELSE GCD(b, a % b)

\* n / d for integers n, d with d # 0, in lowest terms with a positive denominator
Rat(n, d) ==
    LET g == GCD(Abs(n), Abs(d))
        s == IF d < 0 THEN -1 ELSE 1
    IN  <<(s * n) \div g, (s * d) \div g>>

R(n) == <<n, 1>>
RatAdd(a, b) == Rat(a[1] * b[2] + b[1] * a[2], a[2] * b[2])
RatMul(a, b) == Rat(a[1] * b[1], a[2] * b[2])
RatLE(a, b) == a[1] * b[2] <= b[1] * a[2]

Loc(lat, lng) == [lat |-> lat, lng |-> lng]

----------------------------------------------------------------------------
(* Outcomes of a call *)

NoOutcome == [kind |-> "none"]
Return(v) == [kind |-> "return", value |-> v]
Raise(e) == [kind |-> "raise", error |-> e]

\* ValueError is the code's ValidationError; `limit` names the limit breached
ValueError(msg, limit, value) ==
    [type |-> "ValueError", msg |-> msg, limit |-> limit, value |-> value]
HTTPError == [type |-> "HTTPError", msg |-> "raise_for_status", limit |-> "", value |-> R(0)]
JSONDecodeError == [type |-> "JSONDecodeError", msg |-> "json", limit |-> "", value |-> R(0)]
KeyError(k) == [type |-> "KeyError", msg |-> k, limit |-> "", value |-> R(0)]
IndexError == [type |-> "IndexError", msg |-> "list index out of range", limit |-> "", value |-> R(0)]
ZeroDivisionError == [type |-> "ZeroDivisionError", msg |-> "division by zero", limit |-> "", value |-> R(0)]

NoCall == [client |-> "none", op |-> "none"]

----------------------------------------------------------------------------
(* The remote services: what they answer to a request.  The client has no  *)
(* control over the answer, so every request may get any of the answers    *)
(* below.                                                                  *)

AreaKeys == {"results", "rows", "columns", "resolution", "status"}
GovKeys == {"location", "x", "y", "spatialReference", "wkid", "latestWkid",
            "locationId", "value", "rasterId", "resolution"}

TessaBehaviours ==
    {"conforming", "http_error", "not_json", "no_results", "no_status", "short", "reordered"}
USGSBehaviours == {"conforming", "http_error", "no_value"}

\* the elevation the service holds for a place, in a unit
ElevationAt(lat, lng, unit) == [lat |-> lat, lng |-> lng, unit |-> unit]

Reverse(s) == [i \in 1..Len(s) |-> s[Len(s) + 1 - i]]
Front(s) == IF s = <<>> THEN s ELSE SubSeq(s, 1, Len(s) - 1)

\* The service splits the `locations` parameter at "|" and each piece at ","
ParseLocations(str) ==
    LET pieces == SelectSeq(str, LAMBDA t : t.tok = "pair")
    IN  [i \in 1..Len(pieces) |-> Loc(pieces[i].first, pieces[i].second)]

\* one {lat, lng, elevation} entry per requested location, in request order
ServiceResults(req) ==
    LET locs == ParseLocations(req.locations)
    IN  [i \in 1..Len(locs) |->
            [lat |-> locs[i].lat, lng |-> locs[i].lng,
             elevation |-> ElevationAt(locs[i].lat, locs[i].lng, req.unit)]]

TessaBody(req, b) ==
    LET full == ServiceResults(req)
        shaped == CASE b = "short" -> Front(full)
                    [] b = "reordered" -> Reverse(full)
                    [] OTHER -> full
    IN  [http_ok |-> b # "http_error",
         is_json |-> b \notin {"http_error", "not_json"},
         keys |-> CASE b = "no_results" -> AreaKeys \ {"results"}
                    [] b = "no_status" -> AreaKeys \ {"status"}
                    [] b \in {"http_error", "not_json"} -> {}
                    [] OTHER -> AreaKeys,
         content |-> [bytes |-> b, mode |-> req.mode, format |-> req.format],
         results |-> IF req.mode = "area"
                     THEN <<[i \in 1..Len(shaped) |-> shaped[i].elevation]>>
                     ELSE shaped,
         rows |-> 1,
         columns |-> Len(shaped),
         resolution |-> 1,
         status |-> "OK"]

USGSBody(req, b) ==
    [http_ok |-> b # "http_error",
     is_json |-> b # "http_error",
     keys |-> CASE b = "no_value" -> GovKeys \ {"value"}
                [] b = "http_error" -> {}
                [] OTHER -> GovKeys,
     x |-> req.x, y |-> req.y, wkid |-> 4326, latestWkid |-> 4326,
     locationId |-> 0,
     value |-> ElevationAt(req.y, req.x, req.units),
     rasterId |-> 0,
     resolution |-> 1]

----------------------------------------------------------------------------
(* Steps shared by the operations *)

\* an exception leaves the call: nothing is sent
Fail(c, e) ==
    /\ call' = c
    /\ pc' = "done"
    /\ outcome' = Raise(e)
    /\ UNCHANGED <<inflight, response, sent, received, idx, acc, attempts>>

\* requests.get / session.get: the request leaves, the call blocks on the answer
Send(c, req) ==
    /\ call' = c
    /\ pc' = "wait"
    /\ inflight' = Append(inflight, req)
    /\ sent' = Append(sent, req)
    /\ UNCHANGED <<response, received, outcome, idx, acc, attempts>>

\* the call ends with `o` after reading the answer at the head of `response`
Finish(o) ==
    /\ pc' = "done"
    /\ outcome' = o
    /\ received' = Append(received, Head(response))
    /\ response' = Tail(response)
    /\ UNCHANGED <<call, inflight, sent, idx, acc, attempts>>

----------------------------------------------------------------------------
(* TessaDEMAPI *)


\* a variant of LatitudeInRange with the government client's upper bound
LatitudeInRange_Wide(lat) == RatLE(R(MIN_LATITUDE), lat) /\ RatLE(lat, R(90))

LatitudeInRange(lat) == RatLE(R(MIN_LATITUDE), lat) /\ RatLE(lat, R(MAX_LATITUDE))

LatitudeError(msg, lat) == ValueError(msg, "LATITUDE_RANGE", lat)

\* the latitude the `for lat, lng in locations` loop raises on: the first one out of range
FirstBadLatitude(locations) ==
    LET bad == {i \in 1..Len(locations) : ~LatitudeInRange(locations[i].lat)}
        i == CHOOSE k \in bad : \A m \in bad : k <= m
    IN  locations[i].lat

HasBadLatitude(locations) ==
    \E i \in 1..Len(locations) : ~LatitudeInRange(locations[i].lat)


\* a variant of FormatLocation that writes the longitude first
FormatLocation_Swapped(loc) == [tok |-> "pair", first |-> loc.lng, second |-> loc.lat]

\* f"{lat},{lng}"
FormatLocation(loc) == [tok |-> "pair", first |-> loc.lat, second |-> loc.lng]

Separator == [tok |-> "|", first |-> R(0), second |-> R(0)]

\* "|".join(pieces): the pieces with a separator between neighbours
Join(pieces) ==
    [i \in 1..(2 * Len(pieces) - 1) |->
        IF i % 2 = 1 THEN pieces[(i + 1) \div 2] ELSE Separator]

LocationsStr(locations) ==
    Join([i \in 1..Len(locations) |-> FormatLocation(locations[i])])

TessaRequest(mode, locations, unit, format) ==
    [service |-> "tessadem", mode |-> mode, locations |-> LocationsStr(locations),
     unit |-> unit, format |-> format]

\* response.raise_for_status(); data = response.json(); the list of ElevationPoint
\* built from data['results']; data['status']
ParseElevationPoints(body, type) ==
    IF ~body.http_ok THEN Raise(HTTPError)
    ELSE IF ~body.is_json THEN Raise(JSONDecodeError)
    ELSE IF "results" \notin body.keys THEN Raise(KeyError("results"))
    ELSE IF "status" \notin body.keys THEN Raise(KeyError("status"))
    ELSE Return([type |-> type,
                 results |-> [i \in 1..Len(body.results) |->
                                [latitude |-> body.results[i].lat,
                                 longitude |-> body.results[i].lng,
                                 elevation |-> body.results[i].elevation]],
                 status |-> body.status])

NoError == [type |-> "none", msg |-> "", limit |-> "", value |-> R(0)]

\* the checks of get_elevation_points before the request is built
PointsValidate(locations) ==
    IF Len(locations) > MAX_LOCATIONS_PER_REQUEST
    THEN ValueError("Too many locations", "MAX_LOCATIONS_PER_REQUEST", R(Len(locations)))
    ELSE IF HasBadLatitude(locations)
    THEN LatitudeError("Latitude out of range", FirstBadLatitude(locations))
    ELSE NoError

\* the check of get_elevation_path and get_elevation_area
LatitudesValidate(locations) ==
    IF HasBadLatitude(locations)
    THEN LatitudeError("Latitude out of range", FirstBadLatitude(locations))
    ELSE NoError

\* get_elevation_points up to and including requests.get
PointsCall(c, locations, unit, format) ==
    LET e == PointsValidate(locations)
    IN  IF e.type # "none" THEN Fail(c, e)
        ELSE Send(c, TessaRequest("points", locations, unit, format))


\* a variant of GridValidate that counts the locations before it looks at the side
GridValidate_CountFirst(north, south, east, west, grid_size) ==
    IF ~LatitudeInRange(R(north))
    THEN LatitudeError("North latitude out of range", R(north))
    ELSE IF ~LatitudeInRange(R(south))
    THEN LatitudeError("South latitude out of range", R(south))
    ELSE IF grid_size * grid_size > MAX_LOCATIONS_PER_REQUEST
    THEN ValueError("Total locations exceeds maximum", "MAX_LOCATIONS_PER_REQUEST",
                    R(grid_size * grid_size))
    ELSE IF grid_size > MAX_GRID_SIZE
    THEN ValueError("Grid size exceeds maximum", "MAX_GRID_SIZE", R(grid_size))
    ELSE IF Abs(north - south) > MAX_REQUEST_EXTENT_DEGREES
    THEN ValueError("Latitude extent exceeds maximum", "MAX_REQUEST_EXTENT_DEGREES",
                    R(Abs(north - south)))
    ELSE IF Abs(east - west) > MAX_REQUEST_EXTENT_DEGREES
    THEN ValueError("Longitude extent exceeds maximum", "MAX_REQUEST_EXTENT_DEGREES",
                    R(Abs(east - west)))
    ELSE NoError

\* the checks of get_grid_elevations, in the order the code makes them
GridValidate(north, south, east, west, grid_size) ==
    IF ~LatitudeInRange(R(north))
    THEN LatitudeError("North latitude out of range", R(north))
    ELSE IF ~LatitudeInRange(R(south))
    THEN LatitudeError("South latitude out of range", R(south))
    ELSE IF grid_size > MAX_GRID_SIZE
    THEN ValueError("Grid size exceeds maximum", "MAX_GRID_SIZE", R(grid_size))
    ELSE IF grid_size * grid_size > MAX_LOCATIONS_PER_REQUEST
    THEN ValueError("Total locations exceeds maximum", "MAX_LOCATIONS_PER_REQUEST",
                    R(grid_size * grid_size))
    ELSE IF Abs(north - south) > MAX_REQUEST_EXTENT_DEGREES
    THEN ValueError("Latitude extent exceeds maximum", "MAX_REQUEST_EXTENT_DEGREES",
                    R(Abs(north - south)))
    ELSE IF Abs(east - west) > MAX_REQUEST_EXTENT_DEGREES
    THEN ValueError("Longitude extent exceeds maximum", "MAX_REQUEST_EXTENT_DEGREES",
                    R(Abs(east - west)))
    ELSE NoError

\* lat_step, lng_step and the nested loops appending (lat, lng): location
\* i * grid_size + j (from 0) is row i, column j.  Needs grid_size # 1.
GridLocations(north, south, east, west, grid_size) ==
    LET lat_step == Rat(north - south, grid_size - 1)
        lng_step == Rat(east - west, grid_size - 1)
    IN  [p \in 1..(grid_size * grid_size) |->
            LET i == (p - 1) \div grid_size
                j == (p - 1) % grid_size
            IN  Loc(RatAdd(R(south), RatMul(R(i), lat_step)),
                    RatAdd(R(west), RatMul(R(j), lng_step)))]

\* the nested loops reading result.results[i * grid_size + j].elevation
GridReshape(results, grid_size) ==
    IF grid_size > 0 /\ Len(results) < grid_size * grid_size
    THEN Raise(IndexError)
    ELSE Return([i \in 1..grid_size |->
                    [j \in 1..grid_size |->
                        results[(i - 1) * grid_size + (j - 1) + 1].elevation]])


\* a variant of ParseArea that decodes the JSON before it looks at the format
ParseArea_DecodeFirst(body, format) ==
    IF ~body.http_ok THEN Raise(HTTPError)
    ELSE IF ~body.is_json THEN Raise(JSONDecodeError)
    ELSE IF format = "geotiff" THEN Return([type |-> "bytes", content |-> body.content])
    ELSE IF AreaKeys \subseteq body.keys
    THEN Return([type |-> "AreaElevationResult", results |-> body.results,
                 rows |-> body.rows, columns |-> body.columns,
                 resolution |-> body.resolution, status |-> body.status])
    ELSE Raise(KeyError("results"))

\* get_elevation_area after raise_for_status
ParseArea(body, format) ==
    IF ~body.http_ok THEN Raise(HTTPError)
    ELSE IF format = "geotiff" THEN Return([type |-> "bytes", content |-> body.content])
    ELSE IF ~body.is_json THEN Raise(JSONDecodeError)
    ELSE IF "results" \notin body.keys THEN Raise(KeyError("results"))
    ELSE IF "rows" \notin body.keys THEN Raise(KeyError("rows"))
    ELSE IF "columns" \notin body.keys THEN Raise(KeyError("columns"))
    ELSE IF "resolution" \notin body.keys THEN Raise(KeyError("resolution"))
    ELSE IF "status" \notin body.keys THEN Raise(KeyError("status"))
    ELSE Return([type |-> "AreaElevationResult",
                 results |-> body.results,
                 rows |-> body.rows,
                 columns |-> body.columns,
                 resolution |-> body.resolution,
                 status |-> body.status])

(* Inputs of the commercial client *)

Repeat(x, n) == [i \in 1..n |-> x]

GoodLocation == Loc(R(0), R(0))
BadLocation == Loc(R(85), R(0))
LocationChoices == {GoodLocation, Loc(R(84), R(10)), BadLocation, Loc(R(-81), R(200))}

\* the short lists, then the lists at and just over MAX_LOCATIONS_PER_REQUEST
LocationLists ==
    <<UNION {[1..n -> LocationChoices] : n \in 0..MaxLocs},
      {Repeat(GoodLocation, MAX_LOCATIONS_PER_REQUEST),
       Repeat(GoodLocation, MAX_LOCATIONS_PER_REQUEST + 1),
       Repeat(BadLocation, MAX_LOCATIONS_PER_REQUEST + 1)}>>

TessaUnits == {"meters", "feet"}
PointFormats == {"json", "kml"}
AreaFormats == {"json", "kml", "geotiff"}

GridLatitudes == {-81, 0, 3, 84, 85}
GridLongitudes == {0, 4, 10}
\* the largest grid_size whose square is within MAX_LOCATIONS_PER_REQUEST
LargestSquare ==
    CHOOSE k \in 0..MAX_GRID_SIZE :
        /\ k * k <= MAX_LOCATIONS_PER_REQUEST
        /\ (k + 1) * (k + 1) > MAX_LOCATIONS_PER_REQUEST
GridSizes == (0..MaxSmallGrid) \cup (LargestSquare..(MAX_GRID_SIZE + 1))

(* Operations of the commercial client *)

get_elevation_points ==
    /\ pc = "idle"
    /\ \E n \in 1..Len(LocationLists) :
       \E locations \in LocationLists[n], unit \in TessaUnits, format \in PointFormats :
        /\ PointsCall([client |-> "tessadem", op |-> "points", locations |-> locations,
                       unit |-> unit, format |-> format],
                      locations, unit, format)

ReceivePoints ==
    /\ pc = "wait" /\ call.op = "points" /\ response # <<>>
    /\ Finish(ParseElevationPoints(Head(response), "ElevationResult"))

get_elevation_path ==
    /\ pc = "idle"
    /\ \E n \in 1..Len(LocationLists) :
       \E locations \in LocationLists[n], unit \in TessaUnits, format \in PointFormats :
        /\ LET c == [client |-> "tessadem", op |-> "path", locations |-> locations,
                     unit |-> unit, format |-> format]
               e == LatitudesValidate(locations)
           IN  IF e.type # "none" THEN Fail(c, e)
               ELSE Send(c, TessaRequest("path", locations, unit, format))

ReceivePath ==
    /\ pc = "wait" /\ call.op = "path" /\ response # <<>>
    /\ Finish(ParseElevationPoints(Head(response), "PathElevationResult"))

get_elevation_area ==
    /\ pc = "idle"
    /\ \E n \in 1..Len(LocationLists) :
       \E locations \in LocationLists[n], unit \in TessaUnits, format \in AreaFormats :
        /\ LET c == [client |-> "tessadem", op |-> "area", locations |-> locations,
                     unit |-> unit, format |-> format]
               e == LatitudesValidate(locations)
           IN  IF e.type # "none" THEN Fail(c, e)
               ELSE Send(c, TessaRequest("area", locations, unit, format))

ReceiveArea ==
    /\ pc = "wait" /\ call.op = "area" /\ response # <<>>
    /\ Finish(ParseArea(Head(response), call.format))

get_single_elevation ==
    /\ pc = "idle"
    /\ \E loc \in LocationChoices, unit \in TessaUnits :
        /\ LET c == [client |-> "tessadem", op |-> "single", locations |-> <<loc>>,
                     unit |-> unit, format |-> "json"]
           IN  IF ~LatitudeInRange(loc.lat)
               THEN Fail(c, LatitudeError("Latitude out of range", loc.lat))
               ELSE PointsCall(c, <<loc>>, unit, "json")

\* result.results[0].elevation
ReceiveSingle ==
    /\ pc = "wait" /\ call.op = "single" /\ response # <<>>
    /\ LET r == ParseElevationPoints(Head(response), "ElevationResult")
       IN  Finish(IF r.kind = "raise" THEN r
                  ELSE IF Len(r.value.results) = 0 THEN Raise(IndexError)
                  ELSE Return(r.value.results[1].elevation))

get_grid_elevations ==
    /\ pc = "idle"
    /\ \E north \in GridLatitudes, south \in GridLatitudes,
          east \in GridLongitudes, west \in GridLongitudes,
          grid_size \in GridSizes, unit \in TessaUnits :
        /\ LET c == [client |-> "tessadem", op |-> "grid", north |-> north, south |-> south,
                     east |-> east, west |-> west, grid_size |-> grid_size, unit |-> unit]
               e == GridValidate(north, south, east, west, grid_size)
           IN  IF e.type # "none" THEN Fail(c, e)
               ELSE IF grid_size - 1 = 0 THEN Fail(c, ZeroDivisionError)
               ELSE PointsCall(c, GridLocations(north, south, east, west, grid_size),
                               unit, "json")


\* a variant of ReceiveGrid with the government grid's policy: a failed request
\* is swallowed and a matrix of null markers comes back
ReceiveGrid_Swallow ==
    /\ pc = "wait" /\ call.op = "grid" /\ response # <<>>
    /\ LET r == ParseElevationPoints(Head(response), "ElevationResult")
       IN  Finish(IF r.kind = "raise"
                  THEN Return([i \in 1..call.grid_size |->
                                 [j \in 1..call.grid_size |-> [none |-> TRUE]]])
                  ELSE GridReshape(r.value.results, call.grid_size))

ReceiveGrid ==
    /\ pc = "wait" /\ call.op = "grid" /\ response # <<>>
    /\ LET r == ParseElevationPoints(Head(response), "ElevationResult")
       IN  Finish(IF r.kind = "raise" THEN r
                  ELSE GridReshape(r.value.results, call.grid_size))

----------------------------------------------------------------------------
(* USGSEPQSApi *)

\* the checks of get_elevation, in the order the code makes them
ElevationValidate(longitude, latitude, units) ==
    IF ~(RatLE(R(-180), longitude) /\ RatLE(longitude, R(180)))
    THEN ValueError("Longitude out of range", "LONGITUDE_RANGE", longitude)
    ELSE IF ~(RatLE(R(-90), latitude) /\ RatLE(latitude, R(90)))
    THEN ValueError("Latitude out of range", "LATITUDE_RANGE", latitude)
    ELSE IF units \notin {"Meters", "Feet"}
    THEN ValueError("Units must be 'Meters' or 'Feet'", "UNITS", R(0))
    ELSE NoError

USGSRequest(longitude, latitude, units) ==
    [service |-> "usgs", x |-> longitude, y |-> latitude, units |-> units,
     output |-> "json"]

\* the keys of the answer in the order get_elevation reads them
ReadOrder == <<"location", "spatialReference", "wkid", "latestWkid", "x", "y",
               "locationId", "value", "rasterId", "resolution">>

\* get_elevation after session.get: raise_for_status, json, the data classes
ParseElevationResponse(body) ==
    IF ~body.http_ok THEN Raise(HTTPError)
    ELSE IF ~body.is_json THEN Raise(JSONDecodeError)
    ELSE IF \E n \in 1..Len(ReadOrder) : ReadOrder[n] \notin body.keys
    THEN LET n == CHOOSE k \in 1..Len(ReadOrder) :
                    /\ ReadOrder[k] \notin body.keys
                    /\ \A m \in 1..(k - 1) : ReadOrder[m] \in body.keys
         IN  Raise(KeyError(ReadOrder[n]))
    ELSE Return([location |-> [x |-> body.x, y |-> body.y,
                               spatialReference |-> [wkid |-> body.wkid,
                                                     latestWkid |-> body.latestWkid]],
                 locationId |-> body.locationId,
                 value |-> body.value,
                 rasterId |-> body.rasterId,
                 resolution |-> body.resolution])

\* the null marker of get_elevations_grid
None == [none |-> TRUE]

(* Inputs of the government client *)

GovLongitudes == {-181, -180, 0, 181}
GovLatitudes == {-91, 0, 90}
GovUnits == {"Meters", "Feet", "meters"}
\* (longitude, latitude) tuples
GovCoordinates == {<<R(0), R(0)>>, <<R(180), R(90)>>, <<R(181), R(0)>>}
CoordinateLists == UNION {[1..n -> GovCoordinates] : n \in 0..MaxBatch}
GovGridLatitudes == {0, 2, 91}
GovGridLongitudes == {-181, 0, 2}
GovGridSizes == 0..MaxGovGrid

(* Operations of the government client *)

get_elevation ==
    /\ pc = "idle"
    /\ \E longitude \in GovLongitudes, latitude \in GovLatitudes, units \in GovUnits :
        /\ LET c == [client |-> "usgs", op |-> "elevation", longitude |-> R(longitude),
                     latitude |-> R(latitude), units |-> units]
               e == ElevationValidate(R(longitude), R(latitude), units)
           IN  IF e.type # "none" THEN Fail(c, e)
               ELSE Send(c, USGSRequest(R(longitude), R(latitude), units))

ReceiveElevation ==
    /\ pc = "wait" /\ call.op = "elevation" /\ response # <<>>
    /\ Finish(ParseElevationResponse(Head(response)))

get_elevation_simple ==
    /\ pc = "idle"
    /\ \E longitude \in GovLongitudes, latitude \in GovLatitudes, units \in GovUnits :
        /\ LET c == [client |-> "usgs", op |-> "elevationSimple", longitude |-> R(longitude),
                     latitude |-> R(latitude), units |-> units]
               e == ElevationValidate(R(longitude), R(latitude), units)
           IN  IF e.type # "none" THEN Fail(c, e)
               ELSE Send(c, USGSRequest(R(longitude), R(latitude), units))

\* response.value
ReceiveElevationSimple ==
    /\ pc = "wait" /\ call.op = "elevationSimple" /\ response # <<>>
    /\ LET r == ParseElevationResponse(Head(response))
       IN  Finish(IF r.kind = "raise" THEN r ELSE Return(r.value.value))

\* what one pass of a loop records about its single-point call
Attempt(longitude, latitude, r) ==
    [longitude |-> longitude, latitude |-> latitude, ok |-> r.kind = "return", result |-> r]

\* results = []
get_elevation_batch ==
    /\ pc = "idle"
    /\ \E coordinates \in CoordinateLists, units \in GovUnits :
        /\ call' = [client |-> "usgs", op |-> "batch", coordinates |-> coordinates,
                    units |-> units]
        /\ pc' = "loop"
        /\ idx' = 1
        /\ acc' = <<>>
        /\ attempts' = <<>>
        /\ UNCHANGED <<inflight, response, sent, received, outcome>>


\* a variant of BatchOnFailure that keeps the position of a failed item with a null marker
BatchOnFailure_Fill(results) == Append(results, [none |-> TRUE])

\* `except Exception`: what the batch loop does with a failed item
BatchOnFailure(results) == results

\* one pass of `for longitude, latitude in coordinates`, up to session.get;
\* `return results` after the last
BatchIterate ==
    /\ pc = "loop" /\ call.op = "batch"
    /\ IF idx > Len(call.coordinates)
       THEN /\ pc' = "done"
            /\ outcome' = Return(acc)
            /\ UNCHANGED <<call, inflight, response, sent, received, idx, acc, attempts>>
       ELSE LET longitude == call.coordinates[idx][1]
                latitude == call.coordinates[idx][2]
                e == ElevationValidate(longitude, latitude, call.units)
            IN  IF e.type # "none"
                THEN /\ acc' = BatchOnFailure(acc)
                     /\ attempts' = Append(attempts, Attempt(longitude, latitude, Raise(e)))
                     /\ idx' = idx + 1
                     /\ UNCHANGED <<call, pc, inflight, response, sent, received, outcome>>
                ELSE /\ pc' = "wait"
                     /\ inflight' = Append(inflight, USGSRequest(longitude, latitude, call.units))
                     /\ sent' = Append(sent, USGSRequest(longitude, latitude, call.units))
                     /\ UNCHANGED <<call, response, received, outcome, idx, acc, attempts>>

\* the rest of the pass: results.append(result), or the except clause
BatchReceive ==
    /\ pc = "wait" /\ call.op = "batch" /\ response # <<>>
    /\ LET r == ParseElevationResponse(Head(response))
       IN  /\ acc' = IF r.kind = "return" THEN Append(acc, r.value) ELSE BatchOnFailure(acc)
           /\ attempts' = Append(attempts,
                                 Attempt(call.coordinates[idx][1], call.coordinates[idx][2], r))
    /\ idx' = idx + 1
    /\ pc' = "loop"
    /\ received' = Append(received, Head(response))
    /\ response' = Tail(response)
    /\ UNCHANGED <<call, inflight, sent, outcome>>

\* the checks of get_elevations_grid, in the order the code makes them
GovGridValidate(north, south, east, west) ==
    IF ~(-90 <= north /\ north <= 90) \/ ~(-90 <= south /\ south <= 90)
    THEN ValueError("Latitudes must be between -90 and 90", "LATITUDE_RANGE", R(0))
    ELSE IF ~(-180 <= east /\ east <= 180) \/ ~(-180 <= west /\ west <= 180)
    THEN ValueError("Longitudes must be between -180 and 180", "LONGITUDE_RANGE", R(0))
    ELSE IF north <= south
    THEN ValueError("North latitude must be greater than south latitude", "NORTH_SOUTH", R(0))
    ELSE IF east <= west
    THEN ValueError("East longitude must be greater than west longitude", "EAST_WEST", R(0))
    ELSE NoError

\* lat = south + i * lat_step, lng = west + j * lng_step (i, j from 0)
GovCell(north, south, east, west, grid_size, i, j) ==
    LET lat_step == Rat(north - south, grid_size - 1)
        lng_step == Rat(east - west, grid_size - 1)
    IN  Loc(RatAdd(R(south), RatMul(R(i), lat_step)),
            RatAdd(R(west), RatMul(R(j), lng_step)))

\* the checks, lat_step and lng_step, elevations = []
get_elevations_grid ==
    /\ pc = "idle"
    /\ \E north \in GovGridLatitudes, south \in GovGridLatitudes,
          east \in GovGridLongitudes, west \in GovGridLongitudes,
          grid_size \in GovGridSizes, units \in GovUnits :
        /\ LET c == [client |-> "usgs", op |-> "elevationsGrid", north |-> north,
                     south |-> south, east |-> east, west |-> west,
                     grid_size |-> grid_size, units |-> units]
               e == GovGridValidate(north, south, east, west)
           IN  IF e.type # "none" THEN Fail(c, e)
               ELSE IF grid_size - 1 = 0 THEN Fail(c, ZeroDivisionError)
               ELSE /\ call' = c
                    /\ pc' = "loop"
                    /\ idx' = <<0, 0>>
                    /\ acc' = [elevations |-> <<>>, row |-> <<>>]
                    /\ attempts' = <<>>
                    /\ UNCHANGED <<inflight, response, sent, received, outcome>>

\* row.append(cell) and, after the last column, elevations.append(row); the next (i, j)
GridAppend(a, cell, grid_size) ==
    LET row == Append(a.row, cell)
    IN  IF Len(row) = grid_size
        THEN [elevations |-> Append(a.elevations, row), row |-> <<>>]
        ELSE [elevations |-> a.elevations, row |-> row]

GridAdvance(ij, grid_size) ==
    IF ij[2] + 1 = grid_size THEN <<ij[1] + 1, 0>> ELSE <<ij[1], ij[2] + 1>>

\* one pass of the nested loops up to session.get; `return elevations` after the last
GridIterate ==
    /\ pc = "loop" /\ call.op = "elevationsGrid"
    /\ IF idx[1] >= call.grid_size
       THEN /\ pc' = "done"
            /\ outcome' = Return(acc.elevations)
            /\ UNCHANGED <<call, inflight, response, sent, received, idx, acc, attempts>>
       ELSE LET cell == GovCell(call.north, call.south, call.east, call.west,
                                call.grid_size, idx[1], idx[2])
                e == ElevationValidate(cell.lng, cell.lat, call.units)
            IN  IF e.type # "none"
                THEN /\ acc' = GridAppend(acc, None, call.grid_size)
                     /\ attempts' = Append(attempts, Attempt(cell.lng, cell.lat, Raise(e)))
                     /\ idx' = GridAdvance(idx, call.grid_size)
                     /\ UNCHANGED <<call, pc, inflight, response, sent, received, outcome>>
                ELSE /\ pc' = "wait"
                     /\ inflight' = Append(inflight, USGSRequest(cell.lng, cell.lat, call.units))
                     /\ sent' = Append(sent, USGSRequest(cell.lng, cell.lat, call.units))
                     /\ UNCHANGED <<call, response, received, outcome, idx, acc, attempts>>

\* the rest of the pass: row.append(elevation), or row.append(None) in the except clause
GridReceive ==
    /\ pc = "wait" /\ call.op = "elevationsGrid" /\ response # <<>>
    /\ LET r == ParseElevationResponse(Head(response))
           cell == GovCell(call.north, call.south, call.east, call.west,
                           call.grid_size, idx[1], idx[2])
       IN  /\ acc' = GridAppend(acc, IF r.kind = "return" THEN r.value.value ELSE None,
                                call.grid_size)
           /\ attempts' = Append(attempts, Attempt(cell.lng, cell.lat, r))
    /\ idx' = GridAdvance(idx, call.grid_size)
    /\ pc' = "loop"
    /\ received' = Append(received, Head(response))
    /\ response' = Tail(response)
    /\ UNCHANGED <<call, inflight, sent, outcome>>

----------------------------------------------------------------------------
(* The remote service answers the oldest request in flight *)

ServiceRespond ==
    /\ inflight # <<>>
    /\ LET req == Head(inflight)
       IN  \E b \in (IF req.service = "tessadem" THEN TessaBehaviours ELSE USGSBehaviours) :
               response' = Append(response,
                                  IF req.service = "tessadem"
                                  THEN TessaBody(req, b) ELSE USGSBody(req, b))
    /\ inflight' = Tail(inflight)
    /\ UNCHANGED <<call, pc, sent, received, outcome, idx, acc, attempts>>

----------------------------------------------------------------------------

Init ==
    /\ call = NoCall
    /\ pc = "idle"
    /\ inflight = <<>>
    /\ response = <<>>
    /\ sent = <<>>
    /\ received = <<>>
    /\ outcome = NoOutcome
    /\ idx = 0
    /\ acc = <<>>
    /\ attempts = <<>>

Next ==
    \/ get_elevation_points \/ ReceivePoints
    \/ get_elevation_path \/ ReceivePath
    \/ get_elevation_area \/ ReceiveArea
    \/ get_single_elevation \/ ReceiveSingle
    \/ get_grid_elevations \/ ReceiveGrid
    \/ get_elevation \/ ReceiveElevation
    \/ get_elevation_simple \/ ReceiveElevationSimple
    \/ get_elevation_batch \/ BatchIterate \/ BatchReceive
    \/ get_elevations_grid \/ GridIterate \/ GridReceive
    \/ ServiceRespond

Spec == Init /\ [][Next]_vars

----------------------------------------------------------------------------
(* Properties *)

\* a latitude outside [-80, 84], stated with the numbers of the sentence
OutsideCommercialDomain(lat) == lat[1] < (-80) * lat[2] \/ lat[1] > 84 * lat[2]

TessaLatitudeInvalid ==
    /\ call.client = "tessadem"
    /\ IF call.op = "grid"
       THEN OutsideCommercialDomain(R(call.north)) \/ OutsideCommercialDomain(R(call.south))
       ELSE \E i \in 1..Len(call.locations) : OutsideCommercialDomain(call.locations[i].lat)

RaisedValueError == pc = "done" /\ outcome.kind = "raise" /\ outcome.error.type = "ValueError"

NothingSent == sent = <<>> /\ inflight = <<>> /\ response = <<>> /\ received = <<>>

\* C1: every operation of the commercial client (points, path, area, single, grid)
\* called with a location latitude outside [-80, 84] (grid: north or south) has
\* failed with a ValueError and has sent no HTTP request.
C1_InvalidLatitudeRejected ==
    TessaLatitudeInvalid => (RaisedValueError /\ NothingSent)

\* C1 witness: an area call with a latitude above 84 was rejected
C1_Witness ==
    /\ call.op = "area"
    /\ \E i \in 1..Len(call.locations) : call.locations[i].lat = R(85)
    /\ RaisedValueError
    /\ NothingSent

GovInputInvalid(longitude, latitude, units) ==
    \/ longitude[1] < (-180) * longitude[2] \/ longitude[1] > 180 * longitude[2]
    \/ latitude[1] < (-90) * latitude[2] \/ latitude[1] > 90 * latitude[2]
    \/ units \notin {"Meters", "Feet"}

\* an operation of the government client with an invalid longitude, latitude or units
\* (a grid of side 0 or 1 never reaches a cell and is left to C5)
GovCallInvalid ==
    /\ call.client = "usgs"
    /\ CASE call.op \in {"elevation", "elevationSimple"} ->
                GovInputInvalid(call.longitude, call.latitude, call.units)
         [] call.op = "batch" ->
                \E i \in 1..Len(call.coordinates) :
                    GovInputInvalid(call.coordinates[i][1], call.coordinates[i][2], call.units)
         [] call.op = "elevationsGrid" ->
                \/ GovInputInvalid(R(call.east), R(call.north), "Meters")
                \/ GovInputInvalid(R(call.west), R(call.south), "Meters")
                \/ (call.grid_size >= 2 /\ call.units \notin {"Meters", "Feet"})

\* C2: in the government client a validation error is never swallowed: an operation
\* given a longitude outside [-180, 180], a latitude outside [-90, 90] or units other
\* than "Meters" / "Feet" ends in a ValueError, and sends no request for that input.
C2_ValidationNeverSwallowed ==
    (GovCallInvalid /\ pc = "done") => RaisedValueError

\* the returned points are, entry by entry, the input locations
PointsMatchInput ==
    /\ Len(outcome.value.results) = Len(call.locations)
    /\ \A i \in 1..Len(call.locations) :
          /\ outcome.value.results[i].latitude = call.locations[i].lat
          /\ outcome.value.results[i].longitude = call.locations[i].lng
          /\ outcome.value.results[i].elevation =
                ElevationAt(call.locations[i].lat, call.locations[i].lng, call.unit)

PointsReturned == call.op = "points" /\ pc = "done" /\ outcome.kind = "return"

AnswerListsInput(body) ==
    /\ Len(body.results) = Len(call.locations)
    /\ \A i \in 1..Len(call.locations) :
          /\ body.results[i].lat = call.locations[i].lat
          /\ body.results[i].lng = call.locations[i].lng
          /\ body.results[i].elevation =
                ElevationAt(call.locations[i].lat, call.locations[i].lng, call.unit)

TessaGridValid ==
    /\ call.client = "tessadem" /\ call.op = "grid"
    /\ ~OutsideCommercialDomain(R(call.north))
    /\ ~OutsideCommercialDomain(R(call.south))
    /\ call.grid_size <= 128
    /\ call.grid_size * call.grid_size <= 512
    /\ Abs(call.north - call.south) <= 5
    /\ Abs(call.east - call.west) <= 5

\* south + i * (north - south) / (k - 1), as one fraction; (south, west) alone when k = 1
Interpolate(low, high, k, i) ==
    IF k = 1 THEN R(low) ELSE Rat(low * (k - 1) + i * (high - low), k - 1)

\* the elevation of the location of row i, column j (from 0)
ClaimedCell(i, j) ==
    ElevationAt(Interpolate(call.south, call.north, call.grid_size, i),
                Interpolate(call.west, call.east, call.grid_size, j),
                call.unit)

IsSquareMatrix(m, k) == Len(m) = k /\ \A i \in 1..k : Len(m[i]) = k

\* C4: a valid commercial grid call with grid_size = k returns a k x k matrix whose
\* cell (i, j) is the elevation of the location at latitude
\* south + i*(north-south)/(k-1), longitude west + j*(east-west)/(k-1); the one
\* other way it may end is the failure of its request or an answer that cannot be
\* decoded.
C4_GridCellsAreLocations ==
    (TessaGridValid /\ pc = "done") =>
        \/ /\ outcome.kind = "raise"
           /\ outcome.error.type \in {"HTTPError", "JSONDecodeError", "KeyError"}
        \/ /\ outcome.kind = "return"
           /\ IsSquareMatrix(outcome.value, call.grid_size)
           /\ \A i \in 0..(call.grid_size - 1), j \in 0..(call.grid_size - 1) :
                 outcome.value[i + 1][j + 1] = ClaimedCell(i, j)

GovGridValid ==
    /\ call.client = "usgs" /\ call.op = "elevationsGrid"
    /\ -90 <= call.south /\ call.south < call.north /\ call.north <= 90
    /\ -180 <= call.west /\ call.west < call.east /\ call.east <= 180

\* C5: a grid call with grid_size = 1 and otherwise valid bounds, in either client,
\* ends in a ValueError or in a returned result, never in an arithmetic fault.
C5_GridSizeOneDefined ==
    ((TessaGridValid \/ GovGridValid) /\ call.grid_size = 1 /\ pc = "done") =>
        \/ outcome.kind = "return"
        \/ outcome.kind = "raise" /\ outcome.error.type = "ValueError"

\* the responses of the items whose single-point call succeeded, in input order
SuccessfulResponses ==
    LET good == SelectSeq(attempts, LAMBDA a : a.ok)
    IN  [n \in 1..Len(good) |-> good[n].result.value]

FailedItems == {i \in 1..Len(attempts) : ~attempts[i].ok}

\* C6: get_elevation_batch never raises on an item's failure; when it is done it has
\* made the single-point call of every coordinate, in input order, and returns
\* exactly the responses of those that succeeded, in input order: as many as there
\* are coordinates less the failed ones.
C6_BatchSkipsFailures ==
    call.op = "batch" =>
        /\ outcome.kind # "raise"
        /\ pc = "done" =>
              /\ outcome.kind = "return"
              /\ Len(attempts) = Len(call.coordinates)
              /\ \A i \in 1..Len(attempts) :
                    /\ attempts[i].longitude = call.coordinates[i][1]
                    /\ attempts[i].latitude = call.coordinates[i][2]
              /\ outcome.value = SuccessfulResponses
              /\ Len(outcome.value) = Len(call.coordinates) - Cardinality(FailedItems)
              /\ \A n \in 1..Len(outcome.value) : outcome.value[n] # [none |-> TRUE]

\* C6 witness: three coordinates, the second one's request failed, the third was
\* still queried, two responses came back
C6_Witness ==
    /\ call.op = "batch" /\ pc = "done"
    /\ Len(call.coordinates) = 3
    /\ FailedItems = {2}
    /\ attempts[2].result.error.type = "HTTPError"
    /\ Len(sent) = 3
    /\ Len(outcome.value) = 2

\* C7: get_elevations_grid with valid bounds and grid_size = k returns a k x k matrix
\* whose cell (i, j) is the null marker exactly when the single-point call of row i,
\* column j failed, and that call's elevation otherwise.
C7_GridKeepsPositions ==
    (GovGridValid /\ pc = "done") =>
        /\ outcome.kind = "return"
        /\ IsSquareMatrix(outcome.value, call.grid_size)
        /\ Len(attempts) = call.grid_size * call.grid_size
        /\ \A i \in 0..(call.grid_size - 1), j \in 0..(call.grid_size - 1) :
              LET a == attempts[i * call.grid_size + j + 1]
                  cell == outcome.value[i + 1][j + 1]
              IN  /\ (cell = None) <=> ~a.ok
                  /\ a.ok => cell = a.result.value.value
                  /\ a.latitude = Interpolate(call.south, call.north, call.grid_size, i)
                  /\ a.longitude = Interpolate(call.west, call.east, call.grid_size, j)

RaisedLimit(msg, limit) ==
    /\ RaisedValueError
    /\ outcome.error.msg = msg
    /\ outcome.error.limit = limit
    /\ NothingSent

TessaGridLatitudesValid ==
    /\ call.client = "tessadem" /\ call.op = "grid"
    /\ ~OutsideCommercialDomain(R(call.north))
    /\ ~OutsideCommercialDomain(R(call.south))

\* C8: each limit of the commercial client is reported by its own ValueError, and
\* nothing is sent: more than 512 locations in points against
\* MAX_LOCATIONS_PER_REQUEST; in grid with latitudes in range, grid_size > 128
\* against MAX_GRID_SIZE, grid_size 23..128 against MAX_LOCATIONS_PER_REQUEST, an
\* extent above 5 degrees with grid_size <= 22 against MAX_REQUEST_EXTENT_DEGREES;
\* a grid of side <= 22 within the extents is not rejected.
C8_LimitsReported ==
    /\ (call.op = "points" /\ Len(call.locations) > 512) =>
          RaisedLimit("Too many locations", "MAX_LOCATIONS_PER_REQUEST")
    /\ (call.op = "points" /\ Len(call.locations) <= 512 /\ outcome.kind = "raise") =>
          outcome.error.limit # "MAX_LOCATIONS_PER_REQUEST"
    /\ TessaGridLatitudesValid =>
          /\ call.grid_size > 128 =>
                RaisedLimit("Grid size exceeds maximum", "MAX_GRID_SIZE")
          /\ (23 <= call.grid_size /\ call.grid_size <= 128) =>
                RaisedLimit("Total locations exceeds maximum", "MAX_LOCATIONS_PER_REQUEST")
          /\ (call.grid_size <= 22 /\ Abs(call.north - call.south) > 5) =>
                RaisedLimit("Latitude extent exceeds maximum", "MAX_REQUEST_EXTENT_DEGREES")
          /\ (call.grid_size <= 22 /\ Abs(call.north - call.south) <= 5
                /\ Abs(call.east - call.west) > 5) =>
                RaisedLimit("Longitude extent exceeds maximum", "MAX_REQUEST_EXTENT_DEGREES")
          /\ (call.grid_size <= 22 /\ Abs(call.north - call.south) <= 5
                /\ Abs(call.east - call.west) <= 5) =>
                ~(outcome.kind = "raise" /\ outcome.error.type = "ValueError")

\* C8 witness: a 128 x 128 grid was refused for its 16384 locations, not for its side
C8_Witness ==
    /\ TessaGridLatitudesValid
    /\ call.grid_size = 128
    /\ RaisedLimit("Total locations exceeds maximum", "MAX_LOCATIONS_PER_REQUEST")
    /\ outcome.error.value = R(16384)

AreaAnswered ==
    /\ call.op = "area" /\ pc = "done"
    /\ Len(received) = 1 /\ received[1].http_ok

\* C9: an area call whose request succeeded returns, with format "geotiff", the raw
\* bytes of the answer whatever it holds; with another format it returns the
\* AreaElevationResult built from results, rows, columns, resolution and status, or
\* raises when the answer is not JSON or lacks one of them.
C9_GeotiffBypassesDecoding ==
    AreaAnswered =>
        IF call.format = "geotiff"
        THEN outcome = Return([type |-> "bytes", content |-> received[1].content])
        ELSE IF received[1].is_json /\ AreaKeys \subseteq received[1].keys
        THEN /\ outcome.kind = "return"
             /\ outcome.value.type = "AreaElevationResult"
             /\ outcome.value.results = received[1].results
             /\ outcome.value.rows = received[1].rows
             /\ outcome.value.columns = received[1].columns
             /\ outcome.value.resolution = received[1].resolution
             /\ outcome.value.status = received[1].status
        ELSE /\ outcome.kind = "raise"
             /\ outcome.error.type \in {"JSONDecodeError", "KeyError"}

\* C9 witness: a geotiff answer that is not JSON and has none of the fields came
\* back as bytes
C9_Witness ==
    /\ AreaAnswered
    /\ call.format = "geotiff"
    /\ ~received[1].is_json
    /\ received[1].keys = {}
    /\ outcome.kind = "return"
    /\ outcome.value.type = "bytes"

\* the requests of the first m items of a batch, those that pass validation
BatchRequests(m) ==
    LET valid == SelectSeq(SubSeq(call.coordinates, 1, m),
                           LAMBDA c : ~GovInputInvalid(c[1], c[2], call.units))
    IN  [n \in 1..Len(valid) |->
            [service |-> "usgs", x |-> valid[n][1], y |-> valid[n][2],
             units |-> call.units, output |-> "json"]]

\* the requests of the first m cells of a government grid, in row-major order
GridRequests(m) ==
    IF call.units \notin {"Meters", "Feet"} THEN <<>>
    ELSE [n \in 1..m |->
            [service |-> "usgs",
             x |-> Interpolate(call.west, call.east, call.grid_size, (n - 1) % call.grid_size),
             y |-> Interpolate(call.south, call.north, call.grid_size, (n - 1) \div call.grid_size),
             units |-> call.units, output |-> "json"]]

Looping == pc \in {"loop", "wait"} \/ (pc = "done" /\ outcome.kind = "return")

\* C10: at most one request is outstanding at any time; every operation sends at
\* most one request, except get_elevation_batch, whose requests are those of its
\* valid coordinates in input order, and get_elevations_grid, whose requests are
\* those of its cells in row-major order (at most grid_size squared); the commercial
\* grid that returns has sent one points request with grid_size squared locations
\* and returns a full matrix, and when its request fails it raises that failure.
C10_RoundTrips ==
    /\ Len(inflight) + Len(response) <= 1
    /\ pc # "wait" => (inflight = <<>> /\ response = <<>>)
    /\ Len(sent) = Len(received) + Len(inflight) + Len(response)
    /\ call.op \notin {"batch", "elevationsGrid"} => Len(sent) <= 1
    /\ call.op = "batch" =>
          /\ sent = BatchRequests(IF pc = "wait" THEN idx ELSE idx - 1)
          /\ Len(sent) <= Len(call.coordinates)
    /\ call.op = "elevationsGrid" =>
          IF Looping
          THEN /\ sent = GridRequests(idx[1] * call.grid_size + idx[2]
                                      + (IF pc = "wait" THEN 1 ELSE 0))
               /\ Len(sent) <= call.grid_size * call.grid_size
          ELSE sent = <<>>
    /\ (call.op = "grid" /\ pc = "done") =>
          /\ outcome.kind = "return" =>
                /\ Len(sent) = 1
                /\ sent[1].mode = "points"
                /\ Len(ParseLocations(sent[1].locations)) = call.grid_size * call.grid_size
                /\ IsSquareMatrix(outcome.value, call.grid_size)
          /\ (received # <<>> /\ ~received[1].http_ok) => outcome = Raise(HTTPError)

\* C10 witness: the one request of a 3 x 3 commercial grid failed and so did the grid
C10_Witness ==
    /\ call.op = "grid" /\ pc = "done"
    /\ call.grid_size = 3
    /\ Len(sent) = 1
    /\ Len(ParseLocations(sent[1].locations)) = 9
    /\ ~received[1].http_ok
    /\ outcome = Raise(HTTPError)

====
